---- MODULE Spec2Model ----
(***************************************************************************)
(* Manuscript pipeline of the storybook tool: the project state item kept  *)
(* in the DynamoDB state table, the files kept under the chunks and        *)
(* manuscripts directories, and the operations of ManuscriptProcessor      *)
(* (process_manuscript, process_chunks with its pool of workers,           *)
(* finalize_manuscript) and DynamoDBManager that read and write them.      *)
(***************************************************************************)
EXTENDS Integers, Sequences, FiniteSets, TLC

\* Number of chunk files the chunking script wrote for the manuscript
\* (metadata['chunk_files'] has this length, metadata['total_chunks'] this value).
NumChunks == 3

\* multiprocessing.cpu_count() of the machine the tool runs on.
CpuCount == 2

\* Window size of the finishing pass in characters (chunk_size = 20000 in
\* finalize_manuscript), scaled to the short texts used here.
final_chunk_size == 6

\* The literal 5 in max_parallel = min(5, multiprocessing.cpu_count()).
PoolLimit == 5

VARIABLES
    current_phase,      \* state item: current_phase
    total_chunks,       \* state item: total_chunks
    chunks_processed,   \* state item: chunks_processed
    improved,           \* <project>_improved/chunk_NNNN.txt, per chunk index
    edits,              \* edits table row with edit_id chunk_NNNN, per chunk index
    final_manuscript,   \* manuscripts/<project>_improved.txt
    bestseller,         \* manuscripts/<project>_bestseller.txt
    executive_summary,  \* manuscripts/<project>_executive_summary.txt
    metadata_file,      \* chunks/<project>_metadata.json (and the chunk files) exist
    assessment_file,    \* chunks/<project>_assessment.json exists (a payload of
                        \* the dictionary shape process_chunks reads)
    config_file,        \* <project>_config.json exists
    pmPc,               \* position inside process_manuscript
    runPc,              \* position inside process_chunks
    tasks,              \* process_chunks: indices appended to tasks
    wpc,                \* position of the worker call for each chunk index
    runBase,            \* chunks_processed as it was when the run dispatched its tasks
    savedOutOfOrder,    \* the run wrote an improved file below an existing one
    otherPc,            \* a second session of the tool: position in process_chunks
    otherTasks,         \* the second session's tasks
    otherWpc,           \* the second session's worker calls
    sentences,          \* chunk_text: token count of each sentence of the text
    max_tokens,         \* chunk_text: max_tokens
    overlap_tokens,     \* chunk_text: overlap_tokens
    seg_i,              \* chunk_text: index of the sentence the loop is at
    chunks,             \* chunk_text: chunks (each a list of sentence indices)
    current_chunk,      \* chunk_text: current_chunk
    current_token_count,\* chunk_text: current_token_count
    segPc,              \* position inside chunk_text
    chunk_chars,        \* preserve_chapter_integrity: len(chunk) of each chunk
    chapter_markers,    \* preserve_chapter_integrity: positions of the markers
    chapter_positions,  \* preserve_chapter_integrity: chapter_positions
    modified_chunks,    \* preserve_chapter_integrity: modified_chunks
    pci_i,              \* preserve_chapter_integrity: i of the marker loop
    pciPc,              \* position inside preserve_chapter_integrity
    updated_at,         \* state item: updated_at
    clock,              \* the time the processes read (gmtime, utcnow)
    stamp,              \* per worker call: the clock when put_item returned
    otherStamp          \* the same for the second session's worker calls

vars == <<current_phase, total_chunks, chunks_processed, improved, edits,
          final_manuscript, bestseller, executive_summary, metadata_file,
          assessment_file, config_file, pmPc, runPc, tasks, wpc, runBase,
          savedOutOfOrder, otherPc, otherTasks, otherWpc, sentences,
          max_tokens, overlap_tokens, seg_i, chunks, current_chunk,
          current_token_count, segPc, chunk_chars, chapter_markers,
          chapter_positions, modified_chunks, pci_i, pciPc, updated_at,
          clock, stamp, otherStamp>>

store == <<current_phase, total_chunks, chunks_processed, updated_at>>
artifacts == <<bestseller, executive_summary>>
files == <<improved, final_manuscript, artifacts, metadata_file, assessment_file,
           config_file>>
run == <<runPc, tasks, wpc, runBase, savedOutOfOrder>>
other == <<otherPc, otherTasks, otherWpc>>
segmenter == <<sentences, max_tokens, overlap_tokens, seg_i, chunks,
               current_chunk, current_token_count, segPc>>
refiner == <<chunk_chars, chapter_markers, chapter_positions, modified_chunks,
             pci_i, pciPc>>
aside == <<other, segmenter, refiner>>
timing == <<clock, stamp, otherStamp>>

Chunks == 1..NumChunks

Phases == {"assessment", "improvement", "finalization", "complete"}

NoFile == <<>>
NoRow == [original_text |-> <<>>, improved_text |-> <<>>]

\* Text is a sequence of characters (small integers).  Chunk i of the
\* manuscript is the one-character text <<i>>.
ChunkText(i) == <<i>>

\* The 'final_revision' output the improvement flow returns for chunk i
\* (a deterministic transform: the same chunk always gets the same revision).
FlowOutput(i) == <<i + 10>>

\* "\n\n", two newline characters.
Separator == <<0, 0>>

min(a, b) == IF a < b THEN a ELSE b

max_parallel == min(PoolLimit, CpuCount)

-----------------------------------------------------------------------------
\* The project as initialize_tables leaves it, no operation running.
InitProject ==
    /\ current_phase = "assessment"
    /\ total_chunks = 0
    /\ chunks_processed = 0
    /\ updated_at = 0
    /\ clock = 0
    /\ stamp = [i \in Chunks |-> 0]
    /\ improved = [i \in Chunks |-> NoFile]
    /\ edits = [i \in Chunks |-> NoRow]
    /\ final_manuscript = NoFile
    /\ bestseller = NoFile
    /\ executive_summary = NoFile
    /\ metadata_file = FALSE
    /\ assessment_file = FALSE
    /\ config_file = FALSE
    /\ pmPc = "idle"
    /\ runPc = "idle"
    /\ tasks = {}
    /\ wpc = [i \in Chunks |-> "idle"]
    /\ runBase = 0
    /\ savedOutOfOrder = FALSE

\* No second session is running process_chunks.
OtherIdle ==
    /\ otherPc = "idle"
    /\ otherTasks = {}
    /\ otherWpc = [i \in Chunks |-> "idle"]
    /\ otherStamp = [i \in Chunks |-> 0]

\* chunk_text is not running.
SegmenterIdle ==
    /\ sentences = <<>>
    /\ max_tokens = 0
    /\ overlap_tokens = 0
    /\ seg_i = 1
    /\ chunks = <<>>
    /\ current_chunk = <<>>
    /\ current_token_count = 0
    /\ segPc = "idle"

\* preserve_chapter_integrity is not running.
RefinerIdle ==
    /\ chunk_chars = <<>>
    /\ chapter_markers = <<>>
    /\ chapter_positions = <<>>
    /\ modified_chunks = <<>>
    /\ pci_i = 0
    /\ pciPc = "idle"

Init == InitProject /\ OtherIdle /\ SegmenterIdle /\ RefinerIdle

\* The menu loop is single threaded: an operation starts when none is running.
NoOperation == pmPc = "idle" /\ runPc = "idle"

-----------------------------------------------------------------------------
\* ManuscriptProcessor.process_manuscript

\* The chunking subprocess: writes the chunk files and the metadata file,
\* or fails (process_manuscript returns False).
PM_RunChunking ==
    /\ NoOperation
    /\ \E ok \in BOOLEAN :
         IF ok
         THEN /\ metadata_file' = TRUE
              /\ pmPc' = "chunked"
         ELSE UNCHANGED <<metadata_file, pmPc>>
    /\ UNCHANGED <<store, improved, edits, final_manuscript, artifacts,
                   assessment_file, config_file, run>>
    /\ UNCHANGED aside
    /\ UNCHANGED timing

\* update_item: SET title, total_chunks, current_phase = "assessment".
PM_RecordMetadata ==
    /\ pmPc = "chunked"
    /\ \E ok \in BOOLEAN :
         IF ok
         THEN /\ total_chunks' = NumChunks
              /\ current_phase' = "assessment"
              /\ updated_at' = clock
              /\ pmPc' = "recorded"
         ELSE /\ pmPc' = "idle"
              /\ UNCHANGED <<total_chunks, current_phase, updated_at>>
    /\ UNCHANGED <<chunks_processed, files, edits, run>>
    /\ UNCHANGED aside
    /\ UNCHANGED timing

\* The assessment subprocess (assess_manuscript.py main): assesses every chunk,
\* writes the assessment file, then SET current_phase = "improvement".
\* When it ends well process_manuscript returns True and new_project saves the
\* project configuration file.
PM_RunAssessment ==
    /\ pmPc = "recorded"
    /\ \E outcome \in {"model_error", "store_error", "ok"} :
         /\ assessment_file' = (assessment_file \/ outcome # "model_error")
         /\ current_phase' = IF outcome = "ok" THEN "improvement" ELSE current_phase
         /\ updated_at' = IF outcome = "ok" THEN clock ELSE updated_at
         /\ config_file' = (config_file \/ outcome = "ok")
    /\ pmPc' = "idle"
    /\ UNCHANGED <<total_chunks, chunks_processed, improved, edits,
                   final_manuscript, artifacts, metadata_file, run>>
    /\ UNCHANGED aside
    /\ UNCHANGED timing

-----------------------------------------------------------------------------
\* ManuscriptProcessor.process_chunks

\* A variant of the skip test that dispatches every chunk.
NeedsProcessingAlways(i) == TRUE

\* "Skip if already processed": the chunk is dispatched unless its improved
\* file exists.
NeedsProcessing(i) == improved[i] = NoFile

StartProcessChunks ==
    /\ NoOperation
    /\ config_file /\ metadata_file /\ assessment_file
    /\ tasks' = {i \in Chunks : NeedsProcessing(i)}
    /\ wpc' = [i \in Chunks |-> IF NeedsProcessing(i) THEN "queued" ELSE "idle"]
    /\ runPc' = "mapping"
    /\ runBase' = chunks_processed
    /\ savedOutOfOrder' = FALSE
    /\ UNCHANGED <<store, files, edits, pmPc>>
    /\ UNCHANGED aside
    /\ UNCHANGED timing

InFlight == {i \in Chunks : wpc[i] \in {"running", "saved", "stored"}}

\* A pool process picks the task up; the pool has max_parallel processes.
WorkerStart(i) ==
    /\ runPc = "mapping"
    /\ wpc[i] = "queued"
    /\ Cardinality(InFlight) < max_parallel
    /\ wpc' = [wpc EXCEPT ![i] = "running"]
    /\ UNCHANGED <<store, files, edits, pmPc, runPc, tasks, runBase,
                   savedOutOfOrder>>
    /\ UNCHANGED aside
    /\ UNCHANGED timing

\* invoke_flow, extraction of 'final_revision', and the write of the improved
\* file.  An exception or a missing revision ends the call with False.
InvokeAndSave(i) ==
    /\ runPc = "mapping"
    /\ wpc[i] = "running"
    /\ \E outcome \in {"exception", "no_revision", "revision"} :
         IF outcome = "revision"
         THEN /\ improved' = [improved EXCEPT ![i] = FlowOutput(i)]
              /\ wpc' = [wpc EXCEPT ![i] = "saved"]
              /\ savedOutOfOrder' =
                   (savedOutOfOrder \/ \E j \in Chunks : j > i /\ improved[j] # NoFile)
         ELSE /\ wpc' = [wpc EXCEPT ![i] = "failed"]
              /\ UNCHANGED <<improved, savedOutOfOrder>>
    /\ UNCHANGED <<store, edits, final_manuscript, artifacts, metadata_file,
                   assessment_file, config_file, pmPc, runPc, tasks, runBase>>
    /\ UNCHANGED aside
    /\ UNCHANGED timing

\* put_item into the edits table.
PutEdit(i) ==
    /\ runPc = "mapping"
    /\ wpc[i] = "saved"
    /\ \E ok \in BOOLEAN :
         IF ok
         THEN /\ edits' = [edits EXCEPT ![i] =
                             [original_text |-> ChunkText(i),
                              improved_text |-> FlowOutput(i)]]
              /\ wpc' = [wpc EXCEPT ![i] = "stored"]
         ELSE /\ wpc' = [wpc EXCEPT ![i] = "failed"]
              /\ UNCHANGED edits
    /\ UNCHANGED <<store, files, pmPc, runPc, tasks, runBase,
                   savedOutOfOrder>>
    /\ UNCHANGED aside
    /\ stamp' = [stamp EXCEPT ![i] = clock]
    /\ UNCHANGED <<clock, otherStamp>>

\* A variant of the update expression that overwrites the counter.
IncrementOverwrite(n) == 1

\* UpdateExpression "SET chunks_processed = chunks_processed + :val", :val = 1,
\* evaluated by the store on the stored item.
IncrementExpression(n) == n + 1

\* update_item on the state item: the progress counter.
UpdateProgress(i) ==
    /\ runPc = "mapping"
    /\ wpc[i] = "stored"
    /\ \E ok \in BOOLEAN :
         IF ok
         THEN /\ chunks_processed' = IncrementExpression(chunks_processed)
              /\ updated_at' \in stamp[i]..clock
              /\ wpc' = [wpc EXCEPT ![i] = "done"]
         ELSE /\ wpc' = [wpc EXCEPT ![i] = "failed"]
              /\ UNCHANGED <<chunks_processed, updated_at>>
    /\ UNCHANGED <<current_phase, total_chunks, files, edits, pmPc, runPc,
                   tasks, runBase,
                   savedOutOfOrder>>
    /\ UNCHANGED aside
    /\ UNCHANGED timing

\* A variant of the pool that hands back as soon as one call has failed.
StarmapAbortsOnFailure ==
    \/ \A i \in tasks : wpc[i] \in {"done", "failed"}
    \/ \E i \in tasks : wpc[i] = "failed"

\* pool.starmap returns when every task has returned its result.
StarmapReturns == \A i \in tasks : wpc[i] \in {"done", "failed"}

success_count == Cardinality({i \in tasks : wpc[i] = "done"})

\* A variant of the combining loop that visits only this run's tasks.
CombineThisRunOnly == tasks

\* for i in range(len(chunk_files))
CombineRange == Chunks

\* A variant of the combining loop that writes the files last index first.
RECURSIVE CombineFromDescending(_, _, _)
CombineFromDescending(f, i, range) ==
    IF i > NumChunks THEN <<>>
    ELSE CombineFromDescending(f, i + 1, range)
         \o (IF i \in range /\ f[i] # NoFile THEN f[i] \o Separator ELSE <<>>)

\* The loop body, for indices i, i + 1, ... in turn.
RECURSIVE CombineFrom(_, _, _)
CombineFrom(f, i, range) ==
    IF i > NumChunks THEN <<>>
    ELSE (IF i \in range /\ f[i] # NoFile THEN f[i] \o Separator ELSE <<>>)
         \o CombineFrom(f, i + 1, range)

\* The text written to <project>_improved.txt: every improved file that
\* exists, in index order, each followed by the separator.
CombineText(f) == CombineFrom(f, 1, CombineRange)

\* A variant of the test that asks every task of the run to have succeeded.
HasSuccessAllTasks == success_count = Cardinality(tasks)

\* if success_count > 0
HasSuccess == success_count > 0

\* "Check results" and "Combine improved chunks into final manuscript".
CheckResults ==
    /\ runPc = "mapping"
    /\ StarmapReturns
    /\ IF HasSuccess
       THEN /\ final_manuscript' = CombineText(improved)
            /\ runPc' = "combined"
       ELSE /\ runPc' = "returned_false"
            /\ UNCHANGED final_manuscript
    /\ UNCHANGED <<store, improved, edits, artifacts, metadata_file,
                   assessment_file, config_file, pmPc, tasks, wpc, runBase,
                   savedOutOfOrder>>
    /\ UNCHANGED aside
    /\ UNCHANGED timing

\* update_item: SET current_phase = "finalization"; an exception is logged
\* and the call still returns True.
UpdateProjectState ==
    /\ runPc = "combined"
    /\ \E ok \in BOOLEAN :
         /\ current_phase' = IF ok THEN "finalization" ELSE current_phase
         /\ updated_at' = IF ok THEN clock ELSE updated_at
    /\ runPc' = "returned_true"
    /\ UNCHANGED <<total_chunks, chunks_processed, files, edits, pmPc, tasks,
                   wpc, runBase,
                   savedOutOfOrder>>
    /\ UNCHANGED aside
    /\ UNCHANGED timing

\* process_chunks returns to its caller; its locals are gone.
ProcessChunksReturn ==
    /\ runPc \in {"returned_true", "returned_false"}
    /\ runPc' = "idle"
    /\ tasks' = {}
    /\ wpc' = [i \in Chunks |-> "idle"]
    /\ runBase' = 0
    /\ savedOutOfOrder' = FALSE
    /\ UNCHANGED <<store, files, edits, pmPc>>
    /\ UNCHANGED aside
    /\ UNCHANGED timing

-----------------------------------------------------------------------------
\* ManuscriptProcessor.finalize_manuscript

\* A variant of the window count that rounds down.
num_chunks_floor(text) == Len(text) \div final_chunk_size

\* num_chunks = (total_size + chunk_size - 1) // chunk_size
num_chunks(text) == (Len(text) + final_chunk_size - 1) \div final_chunk_size

\* chunks[w - 1] = full_text[start:end], start = (w - 1) * chunk_size,
\* end = min(w * chunk_size, total_size); w counts from 1.
FinalChunk(text, w) ==
    SubSeq(text, (w - 1) * final_chunk_size + 1,
           min(w * final_chunk_size, Len(text)))

\* The outputs of the finalization flow for one window: 'final_polished_text'
\* and 'executive_summary' (deterministic in the window's text).
PolishedText(chunk) == [k \in 1..Len(chunk) |-> chunk[k] + 20]
SummaryText(chunk) == <<chunk[1] + 40>>

\* "\n\n" + "-" * 80 + "\n\n" (the rule of dashes is one character here).
SummarySeparator == <<0, 0, 99, 0, 0>>

\* What one invoke_flow of the loop yields: both outputs, one of them, or
\* none (an exception, or a response without them).
FlowOutcomes == {"both", "polished", "summary", "none"}

RECURSIVE JoinOutputs(_, _, _, _)
\* for output in final_outputs: f.write(output); f.write(sep), where
\* final_outputs holds the outputs appended by windows w..num_chunks.
JoinOutputs(text, outcome, w, kind) ==
    IF w > num_chunks(text) THEN <<>>
    ELSE (IF kind = "polished" /\ outcome[w] \in {"both", "polished"}
          THEN PolishedText(FinalChunk(text, w)) \o Separator
          ELSE IF kind = "summary" /\ outcome[w] \in {"both", "summary"}
          THEN SummaryText(FinalChunk(text, w)) \o SummarySeparator
          ELSE <<>>)
         \o JoinOutputs(text, outcome, w + 1, kind)

\* The finishing pass over the windows of the combined manuscript, the two
\* artifacts, then SET current_phase = "complete" (an exception of the
\* update is logged and the call returns True).
FinalizeManuscript ==
    /\ NoOperation
    /\ config_file /\ assessment_file
    /\ final_manuscript # NoFile
    /\ \E outcome \in [1..num_chunks(final_manuscript) -> FlowOutcomes] :
         /\ bestseller' = JoinOutputs(final_manuscript, outcome, 1, "polished")
         /\ executive_summary' = JoinOutputs(final_manuscript, outcome, 1, "summary")
    /\ \E ok \in BOOLEAN :
         /\ current_phase' = IF ok THEN "complete" ELSE current_phase
         /\ updated_at' = IF ok THEN clock ELSE updated_at
    /\ UNCHANGED <<total_chunks, chunks_processed, improved, edits,
                   final_manuscript, metadata_file, assessment_file,
                   config_file, pmPc, run>>
    /\ UNCHANGED aside
    /\ UNCHANGED timing

-----------------------------------------------------------------------------
\* DynamoDBManager.update_project_metadata with updates = {current_phase: p}.
UpdateProjectMetadata(p) ==
    /\ NoOperation
    /\ \E ok \in BOOLEAN :
         /\ current_phase' = IF ok THEN p ELSE current_phase
         /\ updated_at' = IF ok THEN clock ELSE updated_at
    /\ UNCHANGED <<total_chunks, chunks_processed, files, edits, pmPc, run>>
    /\ UNCHANGED aside
    /\ UNCHANGED timing

-----------------------------------------------------------------------------
Next ==
    \/ PM_RunChunking
    \/ PM_RecordMetadata
    \/ PM_RunAssessment
    \/ StartProcessChunks
    \/ \E i \in Chunks : WorkerStart(i)
    \/ \E i \in Chunks : InvokeAndSave(i)
    \/ \E i \in Chunks : PutEdit(i)
    \/ \E i \in Chunks : UpdateProgress(i)
    \/ CheckResults
    \/ UpdateProjectState
    \/ ProcessChunksReturn
    \/ FinalizeManuscript

Spec == Init /\ [][Next]_vars

\* The same operations, with phase requests through update_project_metadata.
NextRequests ==
    \/ Next
    \/ \E p \in Phases : UpdateProjectMetadata(p)

SpecRequests == Init /\ [][NextRequests]_vars

-----------------------------------------------------------------------------
\* Storybook (main.py): the operations as the menu of one session offers them.

\* create_deployment calls process_manuscript once, for a project that is
\* not in the list; the project is listed and its configuration file saved
\* when process_manuscript has returned True.
MenuCreateDeployment ==
    /\ ~config_file
    /\ ~metadata_file
    /\ PM_RunChunking

\* A variant of the menu that offers chunk processing in every phase.
MenuOffersProcessChunksAlways == TRUE

\* "Process manuscript chunks" / "Continue processing manuscript chunks"
MenuOffersProcessChunks ==
    current_phase \in {"assessment", "improvement", "in_progress"}

\* "Finalize manuscript"
MenuOffersFinalize ==
    current_phase \in {"improvement", "in_progress", "finalization"}

\* Storybook.process_manuscript, action 1 on a listed project.
MenuProcessChunks ==
    /\ config_file
    /\ MenuOffersProcessChunks
    /\ StartProcessChunks

\* Storybook.process_manuscript, action "Finalize manuscript".
MenuFinalize ==
    /\ config_file
    /\ MenuOffersFinalize
    /\ FinalizeManuscript

NextMenu ==
    \/ MenuCreateDeployment
    \/ PM_RecordMetadata
    \/ PM_RunAssessment
    \/ MenuProcessChunks
    \/ \E i \in Chunks : WorkerStart(i)
    \/ \E i \in Chunks : InvokeAndSave(i)
    \/ \E i \in Chunks : PutEdit(i)
    \/ \E i \in Chunks : UpdateProgress(i)
    \/ CheckResults
    \/ UpdateProjectState
    \/ ProcessChunksReturn
    \/ MenuFinalize

SpecMenu == Init /\ [][NextMenu]_vars

-----------------------------------------------------------------------------
\* A second session of the tool running process_chunks on the same project:
\* the same code on the same files and tables, with locals of its own.

OtherStartProcessChunks ==
    /\ otherPc = "idle"
    /\ config_file /\ metadata_file /\ assessment_file
    /\ otherTasks' = {i \in Chunks : NeedsProcessing(i)}
    /\ otherWpc' = [i \in Chunks |->
                      IF NeedsProcessing(i) THEN "queued" ELSE "idle"]
    /\ otherPc' = "mapping"
    /\ UNCHANGED <<store, files, edits, pmPc, run, segmenter, refiner>>
    /\ UNCHANGED timing

OtherInFlight == {i \in Chunks : otherWpc[i] \in {"running", "saved", "stored"}}

OtherWorkerStart(i) ==
    /\ otherPc = "mapping"
    /\ otherWpc[i] = "queued"
    /\ Cardinality(OtherInFlight) < max_parallel
    /\ otherWpc' = [otherWpc EXCEPT ![i] = "running"]
    /\ UNCHANGED <<store, files, edits, pmPc, run, otherPc, otherTasks,
                   segmenter, refiner>>
    /\ UNCHANGED timing

OtherInvokeAndSave(i) ==
    /\ otherPc = "mapping"
    /\ otherWpc[i] = "running"
    /\ \E outcome \in {"exception", "no_revision", "revision"} :
         IF outcome = "revision"
         THEN /\ improved' = [improved EXCEPT ![i] = FlowOutput(i)]
              /\ otherWpc' = [otherWpc EXCEPT ![i] = "saved"]
         ELSE /\ otherWpc' = [otherWpc EXCEPT ![i] = "failed"]
              /\ UNCHANGED improved
    /\ UNCHANGED <<store, edits, final_manuscript, artifacts, metadata_file,
                   assessment_file, config_file, pmPc, run, otherPc,
                   otherTasks, segmenter, refiner>>
    /\ UNCHANGED timing

OtherPutEdit(i) ==
    /\ otherPc = "mapping"
    /\ otherWpc[i] = "saved"
    /\ \E ok \in BOOLEAN :
         IF ok
         THEN /\ edits' = [edits EXCEPT ![i] =
                             [original_text |-> ChunkText(i),
                              improved_text |-> FlowOutput(i)]]
              /\ otherWpc' = [otherWpc EXCEPT ![i] = "stored"]
         ELSE /\ otherWpc' = [otherWpc EXCEPT ![i] = "failed"]
              /\ UNCHANGED edits
    /\ UNCHANGED <<store, files, pmPc, run, otherPc, otherTasks, segmenter,
                   refiner>>
    /\ otherStamp' = [otherStamp EXCEPT ![i] = clock]
    /\ UNCHANGED <<clock, stamp>>

OtherUpdateProgress(i) ==
    /\ otherPc = "mapping"
    /\ otherWpc[i] = "stored"
    /\ \E ok \in BOOLEAN :
         IF ok
         THEN /\ chunks_processed' = IncrementExpression(chunks_processed)
              /\ updated_at' \in otherStamp[i]..clock
              /\ otherWpc' = [otherWpc EXCEPT ![i] = "done"]
         ELSE /\ otherWpc' = [otherWpc EXCEPT ![i] = "failed"]
              /\ UNCHANGED <<chunks_processed, updated_at>>
    /\ UNCHANGED <<current_phase, total_chunks, files, edits, pmPc, run,
                   otherPc, otherTasks, segmenter, refiner>>
    /\ UNCHANGED timing

OtherCheckResults ==
    /\ otherPc = "mapping"
    /\ \A i \in otherTasks : otherWpc[i] \in {"done", "failed"}
    /\ IF \E i \in otherTasks : otherWpc[i] = "done"
       THEN /\ final_manuscript' = CombineText(improved)
            /\ otherPc' = "combined"
       ELSE /\ otherPc' = "returned_false"
            /\ UNCHANGED final_manuscript
    /\ UNCHANGED <<store, improved, edits, artifacts, metadata_file,
                   assessment_file, config_file, pmPc, run, otherTasks,
                   otherWpc, segmenter, refiner>>
    /\ UNCHANGED timing

OtherUpdateProjectState ==
    /\ otherPc = "combined"
    /\ \E ok \in BOOLEAN :
         /\ current_phase' = IF ok THEN "finalization" ELSE current_phase
         /\ updated_at' = IF ok THEN clock ELSE updated_at
    /\ otherPc' = "returned_true"
    /\ UNCHANGED <<total_chunks, chunks_processed, files, edits, pmPc, run,
                   otherTasks, otherWpc, segmenter, refiner>>
    /\ UNCHANGED timing

OtherProcessChunksReturn ==
    /\ otherPc \in {"returned_true", "returned_false"}
    /\ otherPc' = "idle"
    /\ otherTasks' = {}
    /\ otherWpc' = [i \in Chunks |-> "idle"]
    /\ UNCHANGED <<store, files, edits, pmPc, run, segmenter, refiner>>
    /\ UNCHANGED timing

\* Two sessions on one project, up to the combined text.
NextOverlap ==
    \/ PM_RunChunking
    \/ PM_RecordMetadata
    \/ PM_RunAssessment
    \/ StartProcessChunks
    \/ \E i \in Chunks : WorkerStart(i)
    \/ \E i \in Chunks : InvokeAndSave(i)
    \/ \E i \in Chunks : PutEdit(i)
    \/ \E i \in Chunks : UpdateProgress(i)
    \/ CheckResults
    \/ UpdateProjectState
    \/ ProcessChunksReturn
    \/ OtherStartProcessChunks
    \/ \E i \in Chunks : OtherWorkerStart(i)
    \/ \E i \in Chunks : OtherInvokeAndSave(i)
    \/ \E i \in Chunks : OtherPutEdit(i)
    \/ \E i \in Chunks : OtherUpdateProgress(i)
    \/ OtherCheckResults
    \/ OtherUpdateProjectState
    \/ OtherProcessChunksReturn

SpecOverlap == Init /\ [][NextOverlap]_vars

-----------------------------------------------------------------------------
\* The timestamps.  Every writer of the state item computes updated_at on
\* its side, time.strftime(..., time.gmtime()) or
\* datetime.utcnow().isoformat(), while it builds the request; the store
\* applies "SET updated_at = :u" when the request arrives.  A worker call
\* builds its request after put_item has returned, so the value it sends was
\* read between that moment (stamp) and the moment the store applies it.

\* The last reading of the clock explored.
MaxClock == 2

\* Time passes.
Tick ==
    /\ clock < MaxClock
    /\ clock' = clock + 1
    /\ UNCHANGED <<store, files, edits, pmPc, run, stamp, otherStamp>>
    /\ UNCHANGED aside

\* process_manuscript and process_chunks of one session, with the clock.
NextClock ==
    \/ PM_RunChunking
    \/ PM_RecordMetadata
    \/ PM_RunAssessment
    \/ StartProcessChunks
    \/ \E i \in Chunks : WorkerStart(i)
    \/ \E i \in Chunks : InvokeAndSave(i)
    \/ \E i \in Chunks : PutEdit(i)
    \/ \E i \in Chunks : UpdateProgress(i)
    \/ CheckResults
    \/ UpdateProjectState
    \/ ProcessChunksReturn
    \/ Tick

SpecClock == Init /\ [][NextClock]_vars

-----------------------------------------------------------------------------
\* chunk_manuscript.py: chunk_text

\* Bounds of the texts and budgets explored.
MaxSentences == 4
MaxSentenceTokens == 3
MaxBudget == 4

\* sent_tokenize(text): a text is the list of its sentences, a sentence is
\* known by its position, and `sentences` holds the token count of each.
Texts == UNION {[1..n -> 1..MaxSentenceTokens] : n \in 0..MaxSentences}

\* --max_tokens, --overlap_tokens (type=int) or chunk_size, chunk_overlap of
\* config.json, which the settings menu fills with any int(input(...)).
Budgets == -1..MaxBudget

\* count_tokens(sentence)
count_tokens(s) == sentences[s]

\* The sum current_token_count and overlap_token_count keep for a list of
\* sentences.
RECURSIVE TokenTotal(_)
TokenTotal(chunk) ==
    IF chunk = <<>> THEN 0
    ELSE count_tokens(Head(chunk)) + TokenTotal(Tail(chunk))

\* A variant of the last step that forgets the chunk being built.
LastChunkDropped(chunk) == <<>>

\* A variant of the last step that adds the chunk being built even if empty.
LastChunkAlways(chunk) == <<chunk>>

\* "Add the last chunk if not empty"
LastChunk(chunk) == IF chunk # <<>> THEN <<chunk>> ELSE <<>>

\* A variant of the overlap test that stops one token short of the budget.
FitsOverlapStrict(overlap_token_count, sentence_overlap_tokens) ==
    overlap_token_count + sentence_overlap_tokens < overlap_tokens

\* if overlap_token_count + sentence_overlap_tokens <= overlap_tokens
FitsOverlap(overlap_token_count, sentence_overlap_tokens) ==
    overlap_token_count + sentence_overlap_tokens <= overlap_tokens

\* for i in range(len(current_chunk) - 1, -1, -1): the number of sentences
\* taken, walking back from position i with overlap_token_count so far, up to
\* the first sentence that does not fit (break).
RECURSIVE OverlapLen(_, _, _)
OverlapLen(chunk, i, overlap_token_count) ==
    IF i = 0 THEN 0
    ELSE IF FitsOverlap(overlap_token_count, count_tokens(chunk[i]))
         THEN 1 + OverlapLen(chunk, i - 1,
                             overlap_token_count + count_tokens(chunk[i]))
         ELSE 0

\* overlap_text: insert(0, ...) keeps the sentences in their order.
overlap_text(chunk) ==
    SubSeq(chunk, Len(chunk) - OverlapLen(chunk, Len(chunk), 0) + 1, Len(chunk))

\* The state chunk_text starts from, for any text and any budgets.
InitChunkText ==
    /\ InitProject
    /\ OtherIdle
    /\ RefinerIdle
    /\ sentences \in Texts
    /\ max_tokens \in Budgets
    /\ overlap_tokens \in Budgets
    /\ seg_i = 1
    /\ chunks = <<>>
    /\ current_chunk = <<>>
    /\ current_token_count = 0
    /\ segPc = "loop"

\* One pass of "for sentence in sentences".
ChunkTextSentence ==
    /\ segPc = "loop"
    /\ seg_i <= Len(sentences)
    /\ LET sentence_token_count == count_tokens(seg_i) IN
       IF current_token_count + sentence_token_count > max_tokens
            /\ current_chunk # <<>>
       THEN /\ chunks' = Append(chunks, current_chunk)
            /\ current_chunk' = Append(overlap_text(current_chunk), seg_i)
            /\ current_token_count' =
                 TokenTotal(overlap_text(current_chunk)) + sentence_token_count
       ELSE /\ current_chunk' = Append(current_chunk, seg_i)
            /\ current_token_count' = current_token_count + sentence_token_count
            /\ UNCHANGED chunks
    /\ seg_i' = seg_i + 1
    /\ UNCHANGED <<sentences, max_tokens, overlap_tokens, segPc>>
    /\ UNCHANGED <<store, files, edits, pmPc, run, other, refiner>>
    /\ UNCHANGED timing

\* The loop is over: the last chunk is added and chunks returned.
ChunkTextReturn ==
    /\ segPc = "loop"
    /\ seg_i > Len(sentences)
    /\ chunks' = chunks \o LastChunk(current_chunk)
    /\ segPc' = "done"
    /\ UNCHANGED <<sentences, max_tokens, overlap_tokens, seg_i, current_chunk,
                   current_token_count>>
    /\ UNCHANGED <<store, files, edits, pmPc, run, other, refiner>>
    /\ UNCHANGED timing

NextChunkText ==
    \/ ChunkTextSentence
    \/ ChunkTextReturn

SpecChunkText == InitChunkText /\ [][NextChunkText]_vars

\* The loops of chunk_text run to their end: both range over a finite list
\* and no step waits for anything.
SpecChunkTextFair == SpecChunkText /\ WF_vars(NextChunkText)

\* The largest token count of a sentence in the twelve-sentence texts.
MaxTokenUnit == 8

\* chunk_text called on a text of 12 sentences of t tokens each, with
\* max_tokens = 5t and overlap_tokens = t.
InitScenario ==
    /\ InitProject
    /\ OtherIdle
    /\ RefinerIdle
    /\ \E t \in 1..MaxTokenUnit :
         /\ sentences = [s \in 1..12 |-> t]
         /\ max_tokens = 5 * t
         /\ overlap_tokens = t
    /\ seg_i = 1
    /\ chunks = <<>>
    /\ current_chunk = <<>>
    /\ current_token_count = 0
    /\ segPc = "loop"

SpecScenario == InitScenario /\ [][NextChunkText]_vars

-----------------------------------------------------------------------------
\* chunk_manuscript.py: preserve_chapter_integrity(text, chunks,
\* overlap_tokens_length, max_tokens).  The function reads the text through
\* detect_chapters only and the chunks through len() and their content;
\* chunk k (from 0) of the list it is given has content <<k>> and length
\* chunk_chars[k + 1].

\* Bounds of the chunk lists and marker lists explored.
MaxChunks == 3
MaxChunkChars == 4
MaxMarkers == 3
MaxMarkerPos == 5

\* overlap_tokens_length = overlap_tokens * 4
overlap_tokens_length == overlap_tokens * 4

\* The lists of chunks the function can be given, by the chunks' lengths.
ChunkLists == UNION {[1..n -> 1..MaxChunkChars] : n \in 0..MaxChunks}

\* What detect_chapters can return: positions in increasing order; a
\* position is there once for each pattern that matches at it.
MarkerLists ==
    {m \in UNION {[1..n -> 0..MaxMarkerPos] : n \in 0..MaxMarkers} :
        \A k \in 1..(Len(m) - 1) : m[k] <= m[k + 1]}

\* len(chunks[idx]), idx counted from 0.
ChunkLen(idx) == chunk_chars[idx + 1]

RECURSIVE current_pos(_)
\* current_pos when the loop of the positions is at chunk idx.
current_pos(idx) ==
    IF idx = 0 THEN 0
    ELSE current_pos(idx - 1) + ChunkLen(idx - 1) - overlap_tokens_length

\* The (i, pos - current_pos) appended for chunk idx, marker after marker.
PositionsIn(idx) ==
    LET inside == SelectSeq(chapter_markers,
                      LAMBDA pos : /\ current_pos(idx) <= pos
                                   /\ pos < current_pos(idx) + ChunkLen(idx))
    IN [k \in 1..Len(inside) |-> <<idx, inside[k] - current_pos(idx)>>]

RECURSIVE PositionsFrom(_)
\* for i, chunk in enumerate(chunks), from chunk idx on.
PositionsFrom(idx) ==
    IF idx >= Len(chunk_chars) THEN <<>>
    ELSE PositionsIn(idx) \o PositionsFrom(idx + 1)

\* A variant of the copy that holds one entry more than the list copied.
CopyOfChunksPadded == [k \in 1..(Len(chunk_chars) + 1) |-> <<k - 1>>]

\* chunks.copy()
CopyOfChunks == [k \in 1..Len(chunk_chars) |-> <<k - 1>>]

\* Lines 95-110: no marker, the chunks are returned; else the markers are
\* mapped to their chunks and the chunks copied.
PCI_MapMarkers ==
    /\ pciPc = "start"
    /\ IF chapter_markers = <<>>
       THEN /\ modified_chunks' = CopyOfChunks
            /\ pciPc' = "returned"
            /\ UNCHANGED chapter_positions
       ELSE /\ chapter_positions' = PositionsFrom(0)
            /\ modified_chunks' = CopyOfChunks
            /\ pciPc' = "loop"
    /\ pci_i' = 0
    /\ UNCHANGED <<chunk_chars, chapter_markers>>
    /\ UNCHANGED <<store, files, edits, pmPc, run, other, segmenter>>
    /\ UNCHANGED timing

\* if pos_in_chunk > len(chunks[chunk_idx]) * 0.7
NearEnd(chunk_idx, pos_in_chunk) == 10 * pos_in_chunk > 7 * ChunkLen(chunk_idx)

\* if len(chunks[chunk_idx]) + len(chunks[chunk_idx + 1]) < max_tokens * 1.3
SmallEnough(chunk_idx) ==
    10 * (ChunkLen(chunk_idx) + ChunkLen(chunk_idx + 1)) < 13 * max_tokens

\* modified_chunks[chunk_idx] = chunks[chunk_idx] + chunks[chunk_idx + 1];
\* modified_chunks.pop(chunk_idx + 1), both indices in range.
Merged(chunk_idx) ==
    [k \in 1..(Len(modified_chunks) - 1) |->
        IF k < chunk_idx + 1 THEN modified_chunks[k]
        ELSE IF k = chunk_idx + 1 THEN <<chunk_idx, chunk_idx + 1>>
             ELSE modified_chunks[k + 1]]

\* "Update positions of later chapters"
Reindexed(chunk_idx) ==
    [k \in 1..Len(chapter_positions) |->
        <<IF chapter_positions[k][1] <= chunk_idx
          THEN chapter_positions[k][1]
          ELSE chapter_positions[k][1] - 1,
          chapter_positions[k][2]>>]

\* One pass of "for i in range(len(chapter_positions) - 1)".  An index out
\* of the range of modified_chunks raises IndexError, out of the function.
PCI_Marker ==
    /\ pciPc = "loop"
    /\ pci_i < Len(chapter_positions) - 1
    /\ LET chunk_idx == chapter_positions[pci_i + 1][1]
           pos_in_chunk == chapter_positions[pci_i + 1][2]
       IN IF /\ NearEnd(chunk_idx, pos_in_chunk)
             /\ chunk_idx < Len(chunk_chars) - 1
             /\ SmallEnough(chunk_idx)
          THEN IF chunk_idx >= Len(modified_chunks)
               THEN /\ pciPc' = "IndexError"
                    /\ UNCHANGED <<modified_chunks, chapter_positions>>
               ELSE IF chunk_idx + 1 >= Len(modified_chunks)
               THEN /\ pciPc' = "IndexError"
                    /\ modified_chunks' =
                         [modified_chunks EXCEPT ![chunk_idx + 1] =
                             <<chunk_idx, chunk_idx + 1>>]
                    /\ UNCHANGED chapter_positions
               ELSE /\ modified_chunks' = Merged(chunk_idx)
                    /\ chapter_positions' = Reindexed(chunk_idx)
                    /\ UNCHANGED pciPc
          ELSE UNCHANGED <<modified_chunks, chapter_positions, pciPc>>
    /\ pci_i' = pci_i + 1
    /\ UNCHANGED <<chunk_chars, chapter_markers>>
    /\ UNCHANGED <<store, files, edits, pmPc, run, other, segmenter>>
    /\ UNCHANGED timing

\* return modified_chunks
PCI_Return ==
    /\ pciPc = "loop"
    /\ pci_i >= Len(chapter_positions) - 1
    /\ pciPc' = "returned"
    /\ UNCHANGED <<chunk_chars, chapter_markers, chapter_positions,
                   modified_chunks, pci_i>>
    /\ UNCHANGED <<store, files, edits, pmPc, run, other, segmenter>>
    /\ UNCHANGED timing

\* preserve_chapter_integrity called with any list of chunks, any markers
\* and any budgets.
InitRefine ==
    /\ InitProject
    /\ OtherIdle
    /\ sentences = <<>>
    /\ max_tokens \in Budgets
    /\ overlap_tokens \in Budgets
    /\ seg_i = 1
    /\ chunks = <<>>
    /\ current_chunk = <<>>
    /\ current_token_count = 0
    /\ segPc = "idle"
    /\ chunk_chars \in ChunkLists
    /\ chapter_markers \in MarkerLists
    /\ chapter_positions = <<>>
    /\ modified_chunks = <<>>
    /\ pci_i = 0
    /\ pciPc = "start"

NextRefine ==
    \/ PCI_MapMarkers
    \/ PCI_Marker
    \/ PCI_Return

SpecRefine == InitRefine /\ [][NextRefine]_vars

-----------------------------------------------------------------------------
\* chunk_manuscript.py, the script: chunk_text, then
\* preserve_chapter_integrity on the list chunk_text returned.

\* The texts the script is run on: up to MaxSentences sentences of one
\* token each, the empty text among them.
ScriptTexts == {[s \in 1..n |-> 1] : n \in 0..MaxSentences}

\* len(' '.join(current_chunk)) for sentences of c characters each.
JoinedLen(chunk, c) ==
    IF chunk = <<>> THEN 0 ELSE Len(chunk) * c + Len(chunk) - 1

\* The markers detect_chapters can report in a text of the given length.
MarkersWithin(length) ==
    {m \in MarkerLists : \A k \in 1..Len(m) : m[k] < length}

InitScript ==
    /\ InitProject
    /\ OtherIdle
    /\ RefinerIdle
    /\ sentences \in ScriptTexts
    /\ max_tokens \in Budgets
    /\ overlap_tokens \in Budgets
    /\ seg_i = 1
    /\ chunks = <<>>
    /\ current_chunk = <<>>
    /\ current_token_count = 0
    /\ segPc = "loop"

\* refined_chunks = preserve_chapter_integrity(manuscript_text, text_chunks,
\* overlap_tokens_length, max_tokens): the call, with the chunks chunk_text
\* returned and the markers of the same text.
ScriptRefine ==
    /\ segPc = "done"
    /\ pciPc = "idle"
    /\ \E c \in 1..MaxChunkChars :
         /\ chunk_chars' = [k \in 1..Len(chunks) |-> JoinedLen(chunks[k], c)]
         /\ chapter_markers' \in MarkersWithin(JoinedLen(sentences, c))
    /\ pciPc' = "start"
    /\ UNCHANGED <<chapter_positions, modified_chunks, pci_i>>
    /\ UNCHANGED <<store, files, edits, pmPc, run, other, segmenter>>
    /\ UNCHANGED timing

NextScript ==
    \/ ChunkTextSentence
    \/ ChunkTextReturn
    \/ ScriptRefine
    \/ PCI_MapMarkers
    \/ PCI_Marker
    \/ PCI_Return

SpecScript == InitScript /\ [][NextScript]_vars

-----------------------------------------------------------------------------
\* Properties

\* The order of the phases, assessment < improvement < finalization < complete.
PhaseRank(p) ==
    CASE p = "assessment" -> 0
      [] p = "improvement" -> 1
      [] p = "finalization" -> 2
      [] p = "complete" -> 3

\* The chunk has an improved file: what process_chunks takes as "already
\* processed".  Every worker call that returns True has left this file.
AlreadyProcessed(i) == improved[i] # NoFile

RunEnded == runPc \in {"combined", "returned_true", "returned_false"}

\* C1: over any sequence of process_manuscript, the assessment script,
\* process_chunks and finalize_manuscript, the stored current_phase never
\* moves backward in the order assessment < improvement < finalization <
\* complete.
C1_PhaseNeverRegresses ==
    [][PhaseRank(current_phase') >= PhaseRank(current_phase)]_vars

\* C2: a request that would change the phase to anything other than the
\* immediate successor of the current phase is rejected and leaves the stored
\* state unchanged: every change of the stored phase goes to the immediate
\* successor.
C2_OnlySuccessorTransitions ==
    [][current_phase' # current_phase =>
         PhaseRank(current_phase') = PhaseRank(current_phase) + 1]_vars

\* C3: process_chunks advances the project to finalization only when every
\* chunk index 1..N has a succeeded result.
C3_FinalizationOnlyWhenAllSucceeded ==
    [][(runPc = "combined" /\ current_phase # "finalization"
          /\ current_phase' = "finalization")
        => \A i \in Chunks : AlreadyProcessed(i)]_vars

\* C4: after any sequence of process_chunks runs, chunks_processed <=
\* total_chunks, and chunks_processed never decreases.
C4_CounterBoundedAndMonotonic ==
    /\ [](chunks_processed <= total_chunks)
    /\ [][chunks_processed' >= chunks_processed]_vars

\* A re-run that skipped some chunks and dispatched the others, with the
\* counter at total_chunks.
C4_Witness ==
    /\ runPc = "returned_true"
    /\ tasks # {} /\ tasks # Chunks
    /\ total_chunks = NumChunks
    /\ chunks_processed = total_chunks

\* C5: whenever no worker is in flight (none running, none waiting in the
\* pool), chunks_processed equals the number of chunks whose revised text is
\* persisted as done (the chunks later runs skip).
C5_CounterEqualsPersisted ==
    (\A i \in Chunks : wpc[i] \in {"idle", "done", "failed"}) =>
        chunks_processed = Cardinality({i \in Chunks : AlreadyProcessed(i)})

\* C6: increments by concurrently running workers are not lost: when k
\* workers of a run have completed their increment, in any interleaving, the
\* counter is exactly k higher than when the run dispatched them.
C6_NoLostUpdate ==
    runPc # "idle" =>
        chunks_processed = runBase + Cardinality({i \in Chunks : wpc[i] = "done"})

\* Two workers have incremented while a third, which ran beside them, is
\* about to.
C6_Witness ==
    \E i, j, k \in Chunks :
        /\ i # j /\ i # k /\ j # k
        /\ wpc[i] = "done" /\ wpc[j] = "done" /\ wpc[k] = "stored"
        /\ chunks_processed = runBase + 2

\* C7: a process_chunks run skips every chunk that already has a succeeded
\* result from an earlier run: the chunk is not dispatched, so no flow is
\* invoked for it, its improved file and edits row are not rewritten, and no
\* worker increments the counter for it.
C7_ProcessedChunksSkipped ==
    [][\A i \in Chunks :
         /\ (runPc = "idle" /\ runPc' = "mapping" /\ AlreadyProcessed(i))
              => i \notin tasks'
         /\ (runPc' # "idle" /\ i \notin tasks')
              => /\ wpc'[i] = "idle"
                 /\ improved'[i] = improved[i]
                 /\ edits'[i] = edits[i]
         /\ wpc'[i] = "done" => AlreadyProcessed(i)'
      ]_vars

\* A run has ended that skipped a chunk completed earlier (file and edits row)
\* and dispatched the others.
C7_Witness ==
    /\ runPc = "returned_true"
    /\ tasks # {}
    /\ \E i \in Chunks \ tasks :
         improved[i] = FlowOutput(i) /\ edits[i] # NoRow

RECURSIVE RevisionsFrom(_)
\* The revisions of chunks i..N in index order, each followed by "\n\n".
RevisionsFrom(i) ==
    IF i > NumChunks THEN <<>>
    ELSE FlowOutput(i) \o Separator \o RevisionsFrom(i + 1)

\* The combined manuscript of a single run in which every chunk succeeded.
SingleRunText == RevisionsFrom(1)

\* C8: for a deterministic transform, a run that sees the persisted results
\* of earlier runs and completes the remaining chunks writes the same
\* combined manuscript as a single run in which every chunk succeeded.
C8_ResumeSameText ==
    (runPc \in {"combined", "returned_true"}
       /\ \A i \in Chunks : AlreadyProcessed(i))
    => final_manuscript = SingleRunText

\* A second run found some chunks done, completed the rest and combined.
C8_Witness ==
    /\ runPc = "returned_true"
    /\ tasks # {} /\ tasks # Chunks
    /\ \A i \in tasks : wpc[i] = "done"
    /\ final_manuscript = SingleRunText

\* C9: per-chunk failures are isolated: a run ends only after every
\* dispatched chunk has been attempted and has returned its own result, and
\* a chunk that returned True has its revision saved and stored, whatever
\* happened to the others.
C9_FailureIsolated ==
    RunEnded =>
        \A i \in tasks :
            /\ wpc[i] \in {"done", "failed"}
            /\ wpc[i] = "done" =>
                 /\ improved[i] = FlowOutput(i)
                 /\ edits[i].improved_text = FlowOutput(i)

\* A run in which one chunk failed and every other dispatched chunk
\* succeeded, and which went on to combine.
C9_Witness ==
    /\ runPc = "returned_true"
    /\ tasks = Chunks
    /\ \E i \in tasks :
         /\ wpc[i] = "failed" /\ ~AlreadyProcessed(i)
         /\ \A j \in tasks \ {i} : wpc[j] = "done"

\* The status of chunk i that the stores hold: the edits row is written on
\* the success path only and carries no status field.
RecordedStatus(i) == IF edits[i] # NoRow THEN "succeeded" ELSE "absent"

\* C10: every chunk whose attempt failed in a run has a persisted result of
\* status failed.
C10_FailureRecorded ==
    \A i \in tasks : wpc[i] = "failed" => RecordedStatus(i) = "failed"

-----------------------------------------------------------------------------
\* C11: a process_chunks run fails as a whole exactly when none of its
\* chunks succeeded: it has returned False only with no successful task, and
\* it has combined and returned True only with at least one, however many
\* tasks failed or were skipped.
C11_FailsExactlyWhenNoneSucceeded ==
    /\ runPc = "returned_false"
         => \A i \in tasks : wpc[i] = "failed"
    /\ runPc \in {"combined", "returned_true"}
         => \E i \in tasks : wpc[i] = "done"

\* A run that returned True with one success, a failure and a skipped chunk.
C11_Witness ==
    /\ runPc = "returned_true"
    /\ Cardinality({i \in tasks : wpc[i] = "done"}) = 1
    /\ \E i \in tasks : wpc[i] = "failed"
    /\ tasks # Chunks

\* C12: the combined text is written only when every chunk index 1..N has an
\* improved result; with an index missing the combining step fails instead of
\* writing a text without that chunk.
C12_NoTextWithMissingSegment ==
    runPc = "combined" => \A i \in Chunks : AlreadyProcessed(i)

\* The revisions a combined text holds, in the order they appear in it.
IsSeparatorChar(c) == \E k \in 1..Len(Separator) : Separator[k] = c
Revisions(text) == SelectSeq(text, LAMBDA c : ~IsSeparatorChar(c))

\* The index of the chunk whose revision is r.
ChunkOf(r) == CHOOSE i \in Chunks : FlowOutput(i) = <<r>>

\* C13: the combined text holds the revised chunks in increasing index
\* order, each chunk with a revision once, whatever the order in which the
\* worker calls completed.
C13_IncreasingIndexOrder ==
    runPc = "combined" =>
        LET r == Revisions(final_manuscript) IN
        /\ \A k \in 1..Len(r) : \E i \in Chunks : FlowOutput(i) = <<r[k]>>
        /\ \A k \in 1..(Len(r) - 1) : ChunkOf(r[k]) < ChunkOf(r[k + 1])
        /\ {ChunkOf(r[k]) : k \in 1..Len(r)} = {i \in Chunks : AlreadyProcessed(i)}

\* A text combined from all chunks by a run in which a chunk's revision was
\* saved after that of a chunk with a higher index.
C13_Witness ==
    /\ runPc = "combined"
    /\ savedOutOfOrder
    /\ tasks = Chunks
    /\ Len(Revisions(final_manuscript)) = NumChunks

\* C15: a chunk whose attempt failed in a run, in the flow or in a store
\* write, is not taken for processed: the skip check of the next run finds
\* no improved result for it and dispatches it again.
C15_FailedChunkDispatchedAgain ==
    \A i \in Chunks : wpc[i] = "failed" => NeedsProcessing(i)

\* The indices a session's worker calls hold.
Held == {i \in Chunks : wpc[i] \in {"running", "saved", "stored"}}
OtherHeld == {i \in Chunks : otherWpc[i] \in {"running", "saved", "stored"}}

\* C14: at most one worker call holds a chunk index at any time, also when
\* two process_chunks runs on the same project overlap.
C14_OneWorkerPerIndex == Held \cap OtherHeld = {}

-----------------------------------------------------------------------------
\* chunk_text

\* C16: with 0 < overlap_tokens < max_tokens, every chunk chunk_text returns
\* has a token total of at most max_tokens, unless it is one sentence that
\* alone exceeds max_tokens.
C16_ChunkWithinMaxTokens ==
    (segPc = "done" /\ 0 < overlap_tokens /\ overlap_tokens < max_tokens) =>
        \A k \in 1..Len(chunks) :
            \/ TokenTotal(chunks[k]) <= max_tokens
            \/ Len(chunks[k]) = 1 /\ count_tokens(chunks[k][1]) > max_tokens

\* The number of sentences chunk k + 1 repeats from chunk k: the sentences it
\* shares with it.
CarriedLen(k) ==
    Cardinality({j \in 1..Len(chunks[k + 1]) :
                   \E m \in 1..Len(chunks[k]) : chunks[k][m] = chunks[k + 1][j]})

\* C17: for every adjacent pair of chunks, the sentences carried into the
\* second are a contiguous suffix of the first in their order, their token
\* total is at most overlap_tokens, and no longer suffix has such a total.
C17_OverlapIsLongestSuffix ==
    segPc = "done" =>
        \A k \in 1..(Len(chunks) - 1) :
            LET n == Len(chunks[k])
                c == CarriedLen(k)
            IN /\ c <= Len(chunks[k + 1])
               /\ SubSeq(chunks[k + 1], 1, c) = SubSeq(chunks[k], n - c + 1, n)
               /\ TokenTotal(SubSeq(chunks[k], n - c + 1, n)) <= overlap_tokens
               /\ \A d \in (c + 1)..n :
                    TokenTotal(SubSeq(chunks[k], n - d + 1, n)) > overlap_tokens

\* Chunk k without the sentences carried into it.
NewSentences(k) ==
    IF k = 1 THEN chunks[1]
    ELSE SubSeq(chunks[k], CarriedLen(k - 1) + 1, Len(chunks[k]))

RECURSIVE Uncarried(_)
Uncarried(k) ==
    IF k > Len(chunks) THEN <<>> ELSE NewSentences(k) \o Uncarried(k + 1)

\* C18: the first chunk followed by the sentences of each later chunk after
\* its carried prefix is the sentence sequence of the text, every sentence
\* once and in order.
C18_SentencesCovered ==
    segPc = "done" => Uncarried(1) = [s \in 1..Len(sentences) |-> s]

\* A text of MaxSentences sentences returned as three chunks or more, one of
\* them starting with carried sentences.
C18_Witness ==
    /\ segPc = "done"
    /\ Len(sentences) = MaxSentences
    /\ Len(chunks) >= 3
    /\ \E k \in 1..(Len(chunks) - 1) : CarriedLen(k) > 0

\* C19: a sentence of more than max_tokens tokens makes a chunk by itself,
\* with no carried sentence before it and no sentence after it (stated for
\* the budgets C16 is stated for).
C19_OversizedSentenceAlone ==
    (segPc = "done" /\ 0 < overlap_tokens /\ overlap_tokens < max_tokens) =>
        \A s \in 1..Len(sentences) :
            count_tokens(s) > max_tokens =>
                \E k \in 1..Len(chunks) : chunks[k] = <<s>>

\* C20: with overlap_tokens >= max_tokens, or max_tokens <= 0, or
\* overlap_tokens <= 0, segmentation fails and produces no chunk.
C20_InvalidBudgetRejected ==
    (overlap_tokens >= max_tokens \/ max_tokens <= 0 \/ overlap_tokens <= 0)
        => chunks = <<>>

\* The last sentence of chunk k.
LastSentence(k) == chunks[k][Len(chunks[k])]

\* C21: 12 sentences of t tokens each with max_tokens = 5t and
\* overlap_tokens = t give exactly 3 chunks, the second and the third each
\* beginning with the last sentence of the chunk before it.
C21_TwelveSentencesThreeChunks ==
    (segPc = "done" /\ Len(sentences) = 12) =>
        /\ Len(chunks) = 3
        /\ chunks[2][1] = LastSentence(1)
        /\ chunks[3][1] = LastSentence(2)

\* chunk_text has returned for a twelve-sentence text.
C21_Witness ==
    /\ segPc = "done"
    /\ Len(sentences) = 12
    /\ max_tokens = 5 * sentences[1]
    /\ overlap_tokens = sentences[1]
    /\ chunks = <<<<1, 2, 3, 4, 5>>, <<5, 6, 7, 8, 9>>, <<9, 10, 11, 12>>>>

\* C30: chunk_text returns for every sentence list and every pair of
\* budgets, overlap_tokens >= max_tokens and non-positive ones included;
\* no chunk is empty and there are at most as many chunks as sentences.
C30_TerminatesWithNonEmptyChunks ==
    /\ <>(segPc = "done")
    /\ [](/\ \A k \in 1..Len(chunks) : chunks[k] # <<>>
          /\ Len(chunks) <= Len(sentences))

\* chunk_text has returned one chunk per sentence for budgets with
\* overlap_tokens >= max_tokens.
C30_Witness ==
    /\ segPc = "done"
    /\ overlap_tokens >= max_tokens
    /\ Len(sentences) = MaxSentences
    /\ Len(chunks) = Len(sentences)

-----------------------------------------------------------------------------
\* finalize_manuscript

RECURSIVE WindowsFrom(_, _)
\* The windows w, w + 1, ... of the text, one after the other.
WindowsFrom(text, w) ==
    IF w > num_chunks(text) THEN <<>>
    ELSE FinalChunk(text, w) \o WindowsFrom(text, w + 1)

\* C24: the finishing pass splits the combined text of length L with window
\* size S into ceil(L/S) windows: window w (from 1) covers exactly the
\* characters (w-1)*S+1 .. min(w*S, L), every window but the last has length
\* S, no window is empty, and the windows in order make up the text.
C24_WindowsPartitionText ==
    LET text == final_manuscript
        L == Len(text)
        S == final_chunk_size
        M == num_chunks(text)
    IN /\ M * S >= L
       /\ M > 0 => (M - 1) * S < L
       /\ \A w \in 1..M :
            LET win == FinalChunk(text, w) IN
            /\ Len(win) = min(w * S, L) - (w - 1) * S
            /\ \A k \in 1..Len(win) : win[k] = text[(w - 1) * S + k]
            /\ Len(win) >= 1
            /\ w < M => Len(win) = S
       /\ WindowsFrom(text, 1) = text

\* finalize_manuscript has written the finished text from a combined text
\* whose last window is shorter than the others.
C24_Witness ==
    /\ num_chunks(final_manuscript) >= 2
    /\ Len(final_manuscript) % final_chunk_size # 0
    /\ bestseller # NoFile
    /\ bestseller = JoinOutputs(final_manuscript,
                                [w \in 1..num_chunks(final_manuscript) |-> "both"],
                                1, "polished")

\* The finished text and the digest as they are with every window's outputs.
PolishedOfAll(text) ==
    JoinOutputs(text, [w \in 1..num_chunks(text) |-> "both"], 1, "polished")
SummaryOfAll(text) ==
    JoinOutputs(text, [w \in 1..num_chunks(text) |-> "both"], 1, "summary")

\* C25: the finished text written by finalize_manuscript holds the polished
\* span of every window 1..M in window order and the digest the summary of
\* every window: no window is left out of an artifact that is written.
C25_EveryWindowInArtifacts ==
    [][FinalizeManuscript =>
         /\ bestseller' = PolishedOfAll(final_manuscript)
         /\ executive_summary' = SummaryOfAll(final_manuscript)]_vars

\* C26: the phase becomes complete only when the finalization flow has
\* produced a polished span for every window of the combined text.
C26_CompleteOnlyWhenAllPolished ==
    [][(FinalizeManuscript /\ current_phase' = "complete")
         => bestseller' = PolishedOfAll(final_manuscript)]_vars

-----------------------------------------------------------------------------
\* The menu

\* C29: through the menu, process_chunks starts only in phase assessment,
\* improvement or in_progress and finalize_manuscript only in phase
\* improvement, in_progress or finalization; once the phase is complete no
\* step changes the phase, the counter or the artifacts; and the phase never
\* moves backward.
C29_MenuGuardsPhases ==
    [][/\ (runPc = "idle" /\ runPc' = "mapping")
            => current_phase \in {"assessment", "improvement", "in_progress"}
       /\ << bestseller, executive_summary >>' # << bestseller, executive_summary >>
            => current_phase \in {"improvement", "in_progress", "finalization"}
       /\ current_phase = "complete"
            => UNCHANGED <<store, improved, final_manuscript, artifacts, edits>>
       /\ PhaseRank(current_phase') >= PhaseRank(current_phase)]_vars

\* A project completed through the menu: chunks processed, then finalized.
C29_Witness ==
    /\ current_phase = "complete"
    /\ \A i \in Chunks : AlreadyProcessed(i)
    /\ bestseller = PolishedOfAll(final_manuscript)
    /\ runPc = "idle"

-----------------------------------------------------------------------------
\* preserve_chapter_integrity

RECURSIVE Flatten(_)
\* The contents of a list of chunks one after the other.
Flatten(list) ==
    IF list = <<>> THEN <<>> ELSE Head(list) \o Flatten(Tail(list))

\* C22: preserve_chapter_integrity never raises, whatever the chunks and
\* however many markers trigger a merge, and with no marker it returns the
\* list it was given.
C22_RefinementNeverFails ==
    /\ pciPc # "IndexError"
    /\ (pciPc = "returned" /\ chapter_markers = <<>>)
         => modified_chunks = CopyOfChunks

\* C28: the contents of the returned chunks, one after the other, are the
\* contents of the chunks given, each once and in order.
C28_MergesKeepContent ==
    pciPc = "returned" => Flatten(modified_chunks) = Flatten(CopyOfChunks)

\* C23: for an empty source text chunk_text returns the empty list and
\* preserve_chapter_integrity, given that list, returns the empty list, and
\* neither raises.
C23_EmptyTextEmptyLists ==
    sentences = <<>> =>
        /\ segPc = "done" => chunks = <<>>
        /\ pciPc = "returned" => modified_chunks = <<>>
        /\ pciPc # "IndexError"

\* The script has run to its end on the empty text.
C23_Witness ==
    /\ sentences = <<>>
    /\ segPc = "done"
    /\ pciPc = "returned"
    /\ chunks = <<>>
    /\ modified_chunks = <<>>

\* C27: the stored updated_at never decreases: every write of the state
\* item stores a timestamp at or after the one stored before it, also when
\* worker calls computed their timestamps in one order and write in another.
C27_UpdatedAtNeverDecreases == [][updated_at' >= updated_at]_vars

====
